---- MODULE Spec2Model ----
(***************************************************************************)
(* Model of build_delhi_adjacency.py: for each configured state the script *)
(* filters the constituencies of the state out of the master shapefile,    *)
(* sorts them by AC_NO, resolves the district columns, computes the        *)
(* shared-perimeter adjacency lists, builds the node list and writes       *)
(* <state>_ac_graph.json.                                                  *)
(*                                                                         *)
(* Python values are modelled as follows.                                  *)
(*   - str: a tuple of one-character strings (so that upper() and the      *)
(*     substring test `n in up` are computed, not assumed);                *)
(*   - None / pd.NA column name: the empty tuple (lines 155-158 only test  *)
(*     truthiness, and Python treats None and "" alike there);             *)
(*   - a cell or JSON scalar: a record [t, i, s] with t the type tag;      *)
(*   - a polygon: an axis-parallel rectangle [x, y, w, h];                 *)
(*   - a float quotient: the exact fraction in lowest terms [num, den]     *)
(*     (rounding of IEEE doubles is not modelled);                         *)
(*   - list indices are Python's (0-based); TLA+ sequences are 1-based.    *)
(***************************************************************************)
EXTENDS Integers, Sequences, FiniteSets, TLC

VARIABLES
    cols,        \* gdf.columns with the (row-uniform) cell of each extra column
    gi,          \* position of the for loop in STATES (1-based)
    pc,          \* "filter" | "adjacency" | "write" | "done" | "aborted"
    err,         \* exception that ended the run, "none" while running
    gdfRows,     \* rows of gdf that belong to the current state, file order
    sub,         \* sub after sort_values / reset_index, with district columns
    sp,          \* sp: projected, cleaned geometry and perim
    dcode_col,   \* name of the detected district-code column, <<>> for None
    dname_col,   \* name of the detected district-name column, <<>> for None
    idx,         \* index of the outer adjacency loop (Python, 0-based)
    adjacency,   \* adjacency: sequence of sequences of {id, shared_perim}
    nodes,       \* nodes
    files,       \* content of <state>_ac_graph.json, per state label
    diag         \* lines printed since the current round of the for loop began

vars == <<cols, gi, pc, err, gdfRows, sub, sp, dcode_col, dname_col, idx,
          adjacency, nodes, files, diag>>

(***************************************************************************)
(* Bounds                                                                  *)
(***************************************************************************)
\* largest AC_NO that occurs in the shapefile
MaxUnit == 3

(***************************************************************************)
(* Small helpers                                                           *)
(***************************************************************************)
Min(a, b) == IF a <= b THEN a ELSE b

Max(a, b) == IF a >= b THEN a ELSE b

SetMin(S) == CHOOSE m \in S : \A o \in S : m <= o

RECURSIVE GCD(_, _)
GCD(a, b) == IF b = 0 THEN a ELSE GCD(b, a % b)

Range(s) == {s[k] : k \in 1..Len(s)}

(***************************************************************************)
(* Python str: upper() and the `in` substring test                         *)
(***************************************************************************)
LowerAlpha == <<"a","b","c","d","e","f","g","h","i","j","k","l","m",
                "n","o","p","q","r","s","t","u","v","w","x","y","z">>

UpperAlpha == <<"A","B","C","D","E","F","G","H","I","J","K","L","M",
                "N","O","P","Q","R","S","T","U","V","W","X","Y","Z">>

UpperChar(c) ==
    IF \E k \in 1..Len(LowerAlpha) : LowerAlpha[k] = c
    THEN UpperAlpha[CHOOSE k \in 1..Len(LowerAlpha) : LowerAlpha[k] = c]
    ELSE c

StrUpper(s) == [k \in 1..Len(s) |-> UpperChar(s[k])]

StrContains(hay, needle) ==
    \E k \in 0..(Len(hay) - Len(needle)) :
        SubSeq(hay, k + 1, k + Len(needle)) = needle

(***************************************************************************)
(* Cells and JSON scalars                                                  *)
(***************************************************************************)
NoCol == <<>>

CellNA == [t |-> "na", i |-> 0, s |-> <<>>]

CellInt(v) == [t |-> "int", i |-> v, s |-> <<>>]

CellStr(v) == [t |-> "str", i |-> 0, s |-> v]

JNull == [t |-> "null", i |-> 0, s |-> <<>>]

JInt(v) == [t |-> "int", i |-> v, s |-> <<>>]

JStr(v) == [t |-> "str", i |-> 0, s |-> v]

Digits == <<"0","1","2","3","4","5","6","7","8","9">>

\* str(i) for a natural number
RECURSIVE NatStr(_)
NatStr(i) == IF i < 10 THEN <<Digits[i + 1]>>
             ELSE NatStr(i \div 10) \o <<Digits[(i % 10) + 1]>>

\* int(s) for a string: defined when s is a non-empty run of digits
IsDigitStr(s) == Len(s) > 0 /\ \A k \in 1..Len(s) : s[k] \in Range(Digits)

DigitVal(c) == (CHOOSE k \in 1..10 : Digits[k] = c) - 1

RECURSIVE DigitsVal(_)
DigitsVal(s) == IF Len(s) = 0 THEN 0
                ELSE 10 * DigitsVal(SubSeq(s, 1, Len(s) - 1)) + DigitVal(s[Len(s)])

\* pd.isna(x)
IsNA(c) == c.t = "na"

\* int(x) raises ValueError on text that is no number
IntRaises(c) == c.t = "str" /\ ~IsDigitStr(c.s)

PyInt(c) == IF c.t = "int" THEN c.i ELSE DigitsVal(c.s)

PyStr(c) == IF c.t = "str" THEN c.s ELSE NatStr(c.i)

(***************************************************************************)
(* Geometry: what shapely computes on axis-parallel rectangles             *)
(***************************************************************************)
IsEmptyGeom(g) == g.w = 0 \/ g.h = 0

\* GeoSeries.to_crs(32644): source units to metres
ToCrs(g) == [x |-> 10 * g.x, y |-> 10 * g.y, w |-> 10 * g.w, h |-> 10 * g.h]

\* geometry.buffer(0): a valid polygon is returned unchanged, a polygon
\* without area collapses to the empty polygon
Buffer0(g) == IF IsEmptyGeom(g) THEN [x |-> g.x, y |-> g.y, w |-> 0, h |-> 0] ELSE g

\* geometry.length: the perimeter
GeomLength(g) == IF IsEmptyGeom(g) THEN 0 ELSE 2 * (g.w + g.h)

\* signed extent of the overlap of [a0, a1] and [b0, b1]
Overlap(a0, a1, b0, b1) == Min(a1, b1) - Max(a0, b0)

OverlapX(a, b) == Overlap(a.x, a.x + a.w, b.x, b.x + b.w)

OverlapY(a, b) == Overlap(a.y, a.y + a.h, b.y, b.y + b.h)

Intersects(a, b) ==
    /\ ~IsEmptyGeom(a) /\ ~IsEmptyGeom(b)
    /\ OverlapX(a, b) >= 0 /\ OverlapY(a, b) >= 0

InteriorsIntersect(a, b) ==
    Intersects(a, b) /\ OverlapX(a, b) > 0 /\ OverlapY(a, b) > 0

\* predicate="touches": some common point, no common interior point
Touches(a, b) == Intersects(a, b) /\ ~InteriorsIntersect(a, b)

\* a.intersection(b).length: perimeter of a common area, length of a common
\* segment, 0 for a common point or no common point
IntersectionLength(a, b) ==
    IF ~Intersects(a, b) THEN 0
    ELSE IF InteriorsIntersect(a, b)
         THEN 2 * (OverlapX(a, b) + OverlapY(a, b))
         ELSE OverlapX(a, b) + OverlapY(a, b)

\* float(shared / per_i)
PyDiv(a, b) == [num |-> a \div GCD(a, b), den |-> b \div GCD(a, b)]

(***************************************************************************)
(* Python list indexing                                                    *)
(***************************************************************************)
\* lst[i] raises IndexError
IndexRaises(n, i) == i >= n \/ i < 0 - n

\* the 0-based position lst[i] denotes
ListPos(n, i) == IF i >= 0 THEN i ELSE n + i

(***************************************************************************)
(* Configuration and the shapefile                                         *)
(***************************************************************************)
STATES == << [state |-> "delhi", code |-> 7],
             [state |-> "goa",   code |-> 30],
             [state |-> "assam", code |-> 18] >>

Labels == {STATES[k].state : k \in 1..Len(STATES)}

Col(name, cell) == [name |-> name, cell |-> cell]

N_ST_CODE == <<"S","T","_","C","O","D","E">>

N_ST_NAME == <<"S","T","_","N","A","M","E">>

N_AC_NO == <<"A","C","_","N","O">>

N_AC_NAME == <<"A","C","_","N","A","M","E">>

N_geometry == <<"g","e","o","m","e","t","r","y">>

\* the columns every row of India_AC.shp has; their cells are row specific
\* and are read from the row, see ColumnCell
BaseCols == << Col(N_ST_CODE, CellNA), Col(N_ST_NAME, CellNA),
               Col(N_AC_NO, CellNA), Col(N_AC_NAME, CellNA),
               Col(N_geometry, CellNA) >>

C_DT_CODE == Col(<<"D","T","_","C","O","D","E">>, CellInt(9))

C_DIST_NAME == Col(<<"D","I","S","T","_","N","A","M","E">>, CellStr(<<"N","E">>))

C_DIST_CODE == Col(<<"D","I","S","T","_","C","O","D","E">>, CellInt(3))

C_dist_no == Col(<<"d","i","s","t","_","n","o">>, CellInt(5))

C_District == Col(<<"D","i","s","t","r","i","c","t">>, CellNA)

C_DistCode == Col(<<"D","i","s","t","C","o","d","e">>, CellStr(<<"N","E">>))

ColPool == {C_DT_CODE, C_DIST_NAME, C_DIST_CODE, C_dist_no, C_District, C_DistCode}

\* the schemas the geometry runs read: the one of datameet's India_AC and
\* one with numeric district numbers
GeoSchemas == { BaseCols \o <<C_DT_CODE, C_DIST_NAME>>,
                BaseCols \o <<C_DIST_NAME, C_dist_no>> }

\* every schema with at most two extra columns
AllSchemas ==
    {BaseCols} \cup {BaseCols \o <<a>> : a \in ColPool}
    \cup {BaseCols \o <<p[1], p[2]>> : p \in {q \in ColPool \X ColPool : q[1] # q[2]}}

\* a block of four squares and, on top of its right column, a rectangle
\* twice as high
GridCells == { [x |-> 0, y |-> 0, w |-> 1, h |-> 1], [x |-> 1, y |-> 0, w |-> 1, h |-> 1],
               [x |-> 0, y |-> 1, w |-> 1, h |-> 1], [x |-> 1, y |-> 1, w |-> 1, h |-> 1],
               [x |-> 1, y |-> 2, w |-> 1, h |-> 2] }

Row(u, g) == [AC_NO |-> u, AC_NAME |-> <<"A","C">> \o NatStr(u), geometry |-> g]

\* the constituencies of one state tile a part of the plane: no two of
\* them have a common interior point
Layouts(U) == {lay \in [U -> GridCells] : \A u, v \in U : u # v => lay[u] # lay[v]}

RECURSIVE Ascending(_)
Ascending(U) == IF U = {} THEN <<>>
                ELSE <<SetMin(U)>> \o Ascending(U \ {SetMin(U)})

Rotate(s) == IF Len(s) = 0 THEN s ELSE Tail(s) \o <<Head(s)>>

\* orders in which the rows of a state lie in the file: by AC_NO, or not
FileOrders(U) == {Ascending(U), Rotate(Ascending(U))}

UnitSets == SUBSET (1..MaxUnit)

\* what gdf[gdf["ST_CODE"]... == str(code)] can hold: unique positive AC_NO
GroupInputs ==
    UNION { {[k \in 1..Len(o) |-> Row(o[k], lay[o[k]])] :
                 o \in FileOrders(U), lay \in Layouts(U)} : U \in UnitSets }

\* the same with the units laid out on a strip, unit u in the u-th square
StripInputs ==
    UNION { {[k \in 1..Len(o) |-> Row(o[k], [x |-> o[k] - 1, y |-> 0, w |-> 1, h |-> 1])] :
                 o \in FileOrders(U)} : U \in UnitSets }

(***************************************************************************)
(* The steps of the loop body                                              *)
(***************************************************************************)
\* the rows left in file order
MutSortByAcNo(rows) == rows

\* sub.sort_values("AC_NO") followed by reset_index(drop=True)
RECURSIVE InsertByAcNo(_, _)
InsertByAcNo(sorted, r) ==
    IF Len(sorted) = 0 THEN <<r>>
    ELSE IF sorted[Len(sorted)].AC_NO <= r.AC_NO THEN Append(sorted, r)
    ELSE Append(InsertByAcNo(SubSeq(sorted, 1, Len(sorted) - 1), r), sorted[Len(sorted)])

RECURSIVE SortByAcNoFrom(_, _)
SortByAcNoFrom(rows, sorted) ==
    IF Len(rows) = 0 THEN sorted
    ELSE SortByAcNoFrom(Tail(rows), InsertByAcNo(sorted, Head(rows)))

SortByAcNo(rows) == SortByAcNoFrom(rows, <<>>)

\* the needles looked up in the name as it is spelled
Mutfind_col(columns, needles) ==
    LET hits == {k \in 1..Len(columns) :
                    \A n \in needles : StrContains(columns[k].name, n)}
    IN  IF hits = {} THEN NoCol ELSE columns[SetMin(hits)].name

\* find_col(cols, *needles): the first column whose upper-cased name holds
\* every needle, None when there is none
find_col(columns, needles) ==
    LET hits == {k \in 1..Len(columns) :
                    \A n \in needles : StrContains(StrUpper(columns[k].name), n)}
    IN  IF hits = {} THEN NoCol ELSE columns[SetMin(hits)].name

T_DIST == <<"D","I","S","T">>

T_COD == <<"C","O","D">>

T_NO == <<"N","O">>

T_NAME == <<"N","A","M","E">>

\* a or b
PyOr(a, b) == IF a # NoCol THEN a ELSE b

DetectCodeCol(columns) ==
    PyOr(find_col(columns, {T_DIST, T_COD}), find_col(columns, {T_DIST, T_NO}))

DetectNameCol(columns) == find_col(columns, {T_DIST, T_NAME})

\* sub[name] in the row r
ColumnCell(columns, r, name) ==
    IF name = N_AC_NO THEN CellInt(r.AC_NO)
    ELSE IF name = N_AC_NAME THEN CellStr(r.AC_NAME)
    ELSE LET hits == {k \in 1..Len(columns) : columns[k].name = name}
         IN  IF hits = {} THEN CellNA ELSE columns[SetMin(hits)].cell

\* sub["district_id"] = sub[dcode_col] if dcode_col else pd.NA, and district
DistrictCell(columns, r, name) ==
    IF name # NoCol THEN ColumnCell(columns, r, name) ELSE CellNA

WithDistrict(columns, rows, dcode, dname) ==
    [k \in 1..Len(rows) |->
        [AC_NO |-> rows[k].AC_NO, AC_NAME |-> rows[k].AC_NAME,
         geometry |-> rows[k].geometry,
         district_id |-> DistrictCell(columns, rows[k], dcode),
         district |-> DistrictCell(columns, rows[k], dname)]]

\* sp = sub.to_crs(32644); geometry.buffer(0); perim = geometry.length
Project(rows) ==
    [k \in 1..Len(rows) |->
        [AC_NO |-> rows[k].AC_NO,
         geometry |-> Buffer0(ToCrs(rows[k].geometry)),
         perim |-> GeomLength(Buffer0(ToCrs(rows[k].geometry)))]]

\* one list too many
MutNewAdjacency(n) == [k \in 1..(n + 1) |-> <<>>]

\* adjacency = [[] for _ in range(n)]
NewAdjacency(n) == [k \in 1..n |-> <<>>]

\* sindex.query(geom_i, predicate="touches"): the positions j, ascending
RECURSIVE QueryTouches(_, _, _)
QueryTouches(spx, i, j) ==
    IF j >= Len(spx) THEN <<>>
    ELSE (IF Touches(spx[i + 1].geometry, spx[j + 1].geometry) THEN <<j>> ELSE <<>>)
         \o QueryTouches(spx, i, j + 1)

\* shared = geom_i.intersection(sp.at[j, "geometry"]).length
Shared(spx, i, j) == IntersectionLength(spx[i + 1].geometry, spx[j + 1].geometry)

\* a common point counts as a border
MutIsAdjacent(shared) == shared >= 0

\* if shared > 0
IsAdjacent(shared) == shared > 0

\* the number of the row itself
MutNeighbourId(spx, i, j) == spx[i + 1].AC_NO

\* ac_j = int(sp.at[j, "AC_NO"])
NeighbourId(spx, i, j) == spx[j + 1].AC_NO

\* the perimeter of the neighbour
MutDivisor(spx, i, j) == spx[j + 1].perim

\* per_i, the divisor of the ratio
Divisor(spx, i, j) == spx[i + 1].perim

Entry(spx, i, j) ==
    [id |-> NeighbourId(spx, i, j),
     shared_perim |-> PyDiv(Shared(spx, i, j), Divisor(spx, i, j))]

\* the entries the inner loop appends for row i, in order
RECURSIVE InnerLoop(_, _, _)
InnerLoop(spx, i, cand) ==
    IF Len(cand) = 0 THEN <<>>
    ELSE (IF Head(cand) # i /\ IsAdjacent(Shared(spx, i, Head(cand)))
          THEN <<Entry(spx, i, Head(cand))>> ELSE <<>>)
         \o InnerLoop(spx, i, Tail(cand))

NewEntries(spx, i) == InnerLoop(spx, i, QueryTouches(spx, i, 0))

\* the index of adjacency[ac_i - 1]
Slot(ac_i) == ac_i - 1

\* nodes.append({...}) for the row r
Node(r) ==
    [id |-> r.AC_NO, ac_no |-> r.AC_NO, name |-> r.AC_NAME,
     district_id |-> IF IsNA(r.district_id) THEN JNull ELSE JInt(PyInt(r.district_id)),
     district |-> IF IsNA(r.district) THEN JNull ELSE JStr(PyStr(r.district))]

\* building the node of r raises ValueError
NodeRaises(r) == ~IsNA(r.district_id) /\ IntRaises(r.district_id)

BuildNodeList(rows) == [k \in 1..Len(rows) |-> Node(rows[k])]

\* the for loop moves on after the group at position g
NextPos(g) == g + 1

\* break: the loop ends
MutAfterSkip(g) == Len(STATES) + 1

\* continue: the loop goes on with the group after position g
AfterSkip(g) == NextPos(g)

PcAt(g) == IF g > Len(STATES) THEN "done" ELSE "filter"

Say(msg) == <<STATES[gi].state, msg>>

\* the names of one iteration are never read before the next iteration
\* rebinds them, so they are blanked when the iteration ends
Blank ==
    /\ gdfRows' = <<>> /\ sub' = <<>> /\ sp' = <<>>
    /\ dcode_col' = NoCol /\ dname_col' = NoCol
    /\ idx' = 0 /\ adjacency' = <<>> /\ nodes' = <<>>

(***************************************************************************)
(* Actions                                                                 *)
(***************************************************************************)
InitWith(schemas) ==
    /\ cols \in schemas
    /\ gi = 1
    /\ pc = "filter"
    /\ err = "none"
    /\ gdfRows = <<>> /\ sub = <<>> /\ sp = <<>>
    /\ dcode_col = NoCol /\ dname_col = NoCol
    /\ idx = 0 /\ adjacency = <<>> /\ nodes = <<>>
    /\ files = [l \in Labels |-> "previous"]
    /\ diag = <<>>

\* lines 144-149: no row of gdf carries the state's code
SkipGroup(rows) ==
    /\ pc = "filter"
    /\ rows = <<>>
    /\ diag' = <<Say("header"), Say("no_polygons")>>
    /\ gi' = AfterSkip(gi)
    /\ pc' = PcAt(AfterSkip(gi))
    /\ Blank
    /\ UNCHANGED <<cols, err, files>>

\* lines 144-168: rows are the rows of gdf that carry the state's code
LoadGroup(rows) ==
    /\ pc = "filter"
    /\ rows # <<>>
    /\ gdfRows' = rows
    /\ dcode_col' = DetectCodeCol(cols)
    /\ dname_col' = DetectNameCol(cols)
    /\ sub' = WithDistrict(cols, SortByAcNo(rows), dcode_col', dname_col')
    /\ sp' = Project(sub')
    /\ adjacency' = NewAdjacency(Len(sp'))
    /\ idx' = 0
    /\ nodes' = <<>>
    /\ diag' = <<Say("header"), Say("computing")>>
    /\ pc' = "adjacency"
    /\ UNCHANGED <<cols, gi, err, files>>

\* lines 169-182: one round of the outer loop
AdjacencyStep ==
    /\ pc = "adjacency"
    /\ idx < Len(sp)
    /\ LET n    == Len(sp)
           new  == NewEntries(sp, idx)
           slot == Slot(sp[idx + 1].AC_NO)
       IN  IF Len(new) = 0
           THEN /\ idx' = idx + 1
                /\ UNCHANGED <<adjacency, pc, err>>
           ELSE IF IndexRaises(Len(adjacency), slot)
           THEN /\ pc' = "aborted"
                /\ err' = "IndexError"
                /\ UNCHANGED <<adjacency, idx>>
           ELSE /\ adjacency' =
                      [adjacency EXCEPT ![ListPos(Len(adjacency), slot) + 1] = @ \o new]
                /\ idx' = idx + 1
                /\ UNCHANGED <<pc, err>>
    /\ UNCHANGED <<cols, gi, gdfRows, sub, sp, dcode_col, dname_col, nodes, files, diag>>

\* lines 184-202: the warning, the nodes and the document
BuildNodes ==
    /\ pc = "adjacency"
    /\ idx = Len(sp)
    /\ LET warn == IF \E k \in 1..Len(adjacency) : adjacency[k] = <<>>
                   THEN <<Say("no_neighbours")>> ELSE <<>>
       IN  diag' = diag \o warn
    /\ IF \E k \in 1..Len(sub) : NodeRaises(sub[k])
       THEN /\ nodes' = BuildNodeList(
                          SubSeq(sub, 1, SetMin({k \in 1..Len(sub) : NodeRaises(sub[k])}) - 1))
            /\ pc' = "aborted"
            /\ err' = "ValueError"
       ELSE /\ nodes' = BuildNodeList(sub)
            /\ pc' = "write"
            /\ UNCHANGED err
    /\ UNCHANGED <<cols, gi, gdfRows, sub, sp, dcode_col, dname_col, idx, adjacency, files>>

\* lines 203-210: out_file.write_text(...) opens the file for writing, which
\* empties it, writes the document and closes the file
WriteText(outcome) ==
    /\ pc = "write"
    /\ CASE outcome = "ok" ->
              /\ files' = [files EXCEPT ![STATES[gi].state] = "complete"]
              /\ diag' = diag \o <<Say("wrote"), Say("codes")>>
              /\ gi' = NextPos(gi)
              /\ pc' = PcAt(NextPos(gi))
              /\ Blank
              /\ UNCHANGED err
         [] outcome = "open_fails" ->
              /\ pc' = "aborted"
              /\ err' = "OSError"
              /\ UNCHANGED <<files, diag, gi, gdfRows, sub, sp, dcode_col, dname_col,
                             idx, adjacency, nodes>>
         [] outcome = "write_fails" ->
              /\ files' = [files EXCEPT ![STATES[gi].state] = "partial"]
              /\ pc' = "aborted"
              /\ err' = "OSError"
              /\ UNCHANGED <<diag, gi, gdfRows, sub, sp, dcode_col, dname_col,
                             idx, adjacency, nodes>>
    /\ UNCHANGED cols

WriteOutcomes == {"ok", "open_fails", "write_fails"}

Init == InitWith(GeoSchemas)

Next ==
    \/ pc = "filter" /\ \E rows \in GroupInputs : SkipGroup(rows)
    \/ pc = "filter" /\ \E rows \in GroupInputs : LoadGroup(rows)
    \/ AdjacencyStep
    \/ BuildNodes
    \/ \E outcome \in WriteOutcomes : WriteText(outcome)

Spec == Init /\ [][Next]_vars

\* the schema runs: every schema, the units on a strip
SchemaInit == InitWith(AllSchemas)

SchemaNext ==
    \/ pc = "filter" /\ \E rows \in StripInputs : SkipGroup(rows)
    \/ pc = "filter" /\ \E rows \in StripInputs : LoadGroup(rows)
    \/ AdjacencyStep
    \/ BuildNodes
    \/ \E outcome \in WriteOutcomes : WriteText(outcome)

SchemaSpec == SchemaInit /\ [][SchemaNext]_vars

(***************************************************************************)
(* What the claims speak about, read off the shapefile rows (gdfRows) and  *)
(* not off the values the script derives from them                         *)
(***************************************************************************)
\* the graph of the current state is built and is what write_text emits
Built == pc = "write"

UnitsOf == {gdfRows[k].AC_NO : k \in 1..Len(gdfRows)}

RowOfUnit(u) == gdfRows[CHOOSE k \in 1..Len(gdfRows) : gdfRows[k].AC_NO = u]

\* perimeter of unit u in metres
TruePerimeter(u) ==
    LET g == RowOfUnit(u).geometry IN 20 * g.w + 20 * g.h

\* length of the part of [a, a + la] that lies in [b, b + lb], 0 if none
CommonExtent(a, la, b, lb) ==
    LET lo == IF a >= b THEN a ELSE b
        hi == IF a + la <= b + lb THEN a + la ELSE b + lb
    IN  IF hi > lo THEN hi - lo ELSE 0

\* length in metres of the border units u and v have in common
TrueSharedBoundary(u, v) ==
    LET a == RowOfUnit(u).geometry
        b == RowOfUnit(v).geometry
    IN  IF a.x + a.w = b.x \/ b.x + b.w = a.x
        THEN 10 * CommonExtent(a.y, a.h, b.y, b.h)
        ELSE IF a.y + a.h = b.y \/ b.y + b.h = a.y
        THEN 10 * CommonExtent(a.x, a.w, b.x, b.w)
        ELSE 0

\* units u and v have a single point in common
MeetAtPoint(u, v) ==
    LET a == RowOfUnit(u).geometry
        b == RowOfUnit(v).geometry
    IN  /\ TrueSharedBoundary(u, v) = 0
        /\ (a.x + a.w = b.x \/ b.x + b.w = a.x)
        /\ (a.y + a.h = b.y \/ b.y + b.h = a.y)

\* the neighbour list the document holds for node id u: adjacency[u - 1],
\* none when the sequence has no such index
ListOf(u) == IF u \in 1..Len(adjacency) THEN adjacency[u] ELSE <<>>

IdsIn(list) == {list[k].id : k \in 1..Len(list)}

\* name contains tok, letter case ignored
LowerOf(c) ==
    IF \E k \in 1..Len(UpperAlpha) : UpperAlpha[k] = c
    THEN LowerAlpha[CHOOSE k \in 1..Len(UpperAlpha) : UpperAlpha[k] = c]
    ELSE c

HasToken(name, tok) ==
    \E off \in 0..(Len(name) - Len(tok)) :
        \A k \in 1..Len(tok) : LowerOf(name[off + k]) = LowerOf(tok[k])

IsCodeName(n) == HasToken(n, T_DIST) /\ HasToken(n, T_COD)

IsNumberName(n) == HasToken(n, T_DIST) /\ HasToken(n, T_NO)

IsNameName(n) == HasToken(n, T_DIST) /\ HasToken(n, T_NAME)

Loaded == pc \in {"adjacency", "write", "aborted"}

(***************************************************************************)
(* C1                                                                      *)
(***************************************************************************)
\* C1: for every state whose AC_NO are unique positive integers, contiguous
\* from 1 or not, the build completes (no IndexError ends it) and in the
\* built graph the list at adjacency index k holds exactly the neighbours
\* of the node whose id is k + 1.
C1_SlotHoldsListOfUnit ==
    /\ err # "IndexError"
    /\ Built =>
         \A u \in UnitsOf :
            IdsIn(ListOf(u)) = {v \in UnitsOf \ {u} : TrueSharedBoundary(u, v) > 0}

(***************************************************************************)
(* C2                                                                      *)
(***************************************************************************)
NodeIds == {nodes[k].id : k \in 1..Len(nodes)}

NodesFollowUnits ==
    /\ Len(nodes) = Len(gdfRows)
    /\ \A k \in 1..(Len(nodes) - 1) : nodes[k].id < nodes[k + 1].id
    /\ \A k \in 1..Len(nodes) :
          /\ nodes[k].id \in UnitsOf
          /\ nodes[k].name = RowOfUnit(nodes[k].id).AC_NAME

\* C2 as stated: the nodes are ordered ascending by AC_NO, each id is the
\* AC_NO of its unit, and the ids are exactly 1..N.
C2_IdsAreOneToN ==
    Built => (NodesFollowUnits /\ NodeIds = 1..Len(gdfRows))

\* C2 as amended: the nodes are ordered ascending by AC_NO, each id is the
\* AC_NO of its unit, and the ids are exactly the AC_NO of the state,
\* each once; they are 1..N when the AC_NO of the state are 1..N.
C2_IdsAreUnitNumbers ==
    Built =>
       /\ NodesFollowUnits
       /\ NodeIds = UnitsOf
       /\ Cardinality(NodeIds) = Len(nodes)
       /\ (UnitsOf = 1..Len(gdfRows) => NodeIds = 1..Len(nodes))

C2_Witness ==
    /\ Built
    /\ UnitsOf # 1..Len(gdfRows)
    /\ \E k \in 1..(Len(gdfRows) - 1) : gdfRows[k].AC_NO > gdfRows[k + 1].AC_NO

(***************************************************************************)
(* C3                                                                      *)
(***************************************************************************)
\* C3: the document holds as many adjacency lists as nodes, and that is
\* the number of units of the state.
C3_AsManyListsAsNodes ==
    Built => (Len(adjacency) = Len(nodes) /\ Len(nodes) = Cardinality(UnitsOf))

C3_Witness ==
    /\ Built
    /\ Len(nodes) >= 2
    /\ \E k \in 1..Len(adjacency) : adjacency[k] # <<>>
    /\ \E k \in 1..Len(adjacency) : adjacency[k] = <<>>

(***************************************************************************)
(* C4                                                                      *)
(***************************************************************************)
\* C4: for distinct units u and v of a built graph, v is on the list of u
\* exactly if their common border is longer than 0; units without a common
\* point, or with a single common point, have no edge either way.
C4_EdgeIffPositiveBorder ==
    Built =>
       \A u \in UnitsOf : \A v \in UnitsOf \ {u} :
          (v \in IdsIn(ListOf(u))) <=> (TrueSharedBoundary(u, v) > 0)

C4_Witness ==
    /\ Built
    /\ \E u \in UnitsOf : \E v \in UnitsOf \ {u} :
          TrueSharedBoundary(u, v) > 0 /\ v \in IdsIn(ListOf(u))
    /\ \E u \in UnitsOf : \E v \in UnitsOf \ {u} :
          MeetAtPoint(u, v) /\ v \notin IdsIn(ListOf(u))
    /\ \E u \in UnitsOf : \E v \in UnitsOf \ {u} :
          /\ TrueSharedBoundary(u, v) = 0 /\ ~MeetAtPoint(u, v)
          /\ v \notin IdsIn(ListOf(u))

(***************************************************************************)
(* C5                                                                      *)
(***************************************************************************)
\* three squares of perimeter 40: 1 and 2 share 10, 2 and 3 share 10,
\* 1 and 3 share no border
LShape ==
    /\ UnitsOf = {1, 2, 3}
    /\ \A u \in UnitsOf : TruePerimeter(u) = 40
    /\ TrueSharedBoundary(1, 2) = 10
    /\ TrueSharedBoundary(2, 3) = 10
    /\ TrueSharedBoundary(1, 3) = 0

Quarter == [num |-> 1, den |-> 4]

\* C5: the ratio recorded on the list of unit u for neighbour v is the
\* common border of u and v divided by the perimeter of u, hence above 0;
\* in the L-shape node 1 gets [{2, 0.25}], node 2 gets {1: 0.25, 3: 0.25}
\* and node 3 gets [{2, 0.25}].
C5_RatioOverOwnPerimeter ==
    Built =>
       /\ \A u \in UnitsOf : \A k \in 1..Len(ListOf(u)) :
             LET e == ListOf(u)[k]
             IN  /\ e.id \in UnitsOf
                 /\ e.shared_perim.num * TruePerimeter(u)
                       = e.shared_perim.den * TrueSharedBoundary(u, e.id)
                 /\ e.shared_perim.num > 0
                 /\ e.shared_perim.den > 0
       /\ LShape =>
             /\ Len(adjacency) = 3
             /\ adjacency[1] = <<[id |-> 2, shared_perim |-> Quarter]>>
             /\ Len(adjacency[2]) = 2
             /\ Range(adjacency[2]) = {[id |-> 1, shared_perim |-> Quarter],
                                       [id |-> 3, shared_perim |-> Quarter]}
             /\ adjacency[3] = <<[id |-> 2, shared_perim |-> Quarter]>>

C5_Witness ==
    /\ Built
    /\ LShape
    /\ Len(adjacency[2]) = 2

(***************************************************************************)
(* C6                                                                      *)
(***************************************************************************)
\* C6: no adjacency list holds the id of the node it belongs to.
C6_NoSelfReference ==
    \A k \in 1..Len(adjacency) : k \notin IdsIn(adjacency[k])

C6_Witness ==
    /\ Built
    /\ \E k \in 1..Len(adjacency) : Len(adjacency[k]) >= 2

(***************************************************************************)
(* C7                                                                      *)
(***************************************************************************)
\* the loop body has been entered for the group at position k
Reached(k) == k < gi \/ (k = gi /\ pc # "filter")

\* C7: a failure in one group does not abort the batch: when the run has
\* ended, every configured group has been processed.
C7_FailureKeepsBatchGoing ==
    pc \in {"done", "aborted"} => \A k \in 1..Len(STATES) : Reached(k)

(***************************************************************************)
(* C8                                                                      *)
(***************************************************************************)
\* C8: when no row carries the code of the group, the step prints the
\* diagnostic, writes no file, raises nothing and goes on with the next
\* configured group.
C8_EmptyGroupSkipped ==
    [][ (pc = "filter" /\ gdfRows' = <<>>) =>
           /\ <<STATES[gi].state, "no_polygons">> \in Range(diag')
           /\ files' = files
           /\ err' = "none"
           /\ gi' = gi + 1
           /\ pc' = IF gi < Len(STATES) THEN "filter" ELSE "done" ]_vars

\* delhi was skipped, goa was written, assam is next
C8_Witness ==
    /\ gi = 3 /\ pc = "filter"
    /\ files["delhi"] = "previous"
    /\ files["goa"] = "complete"

(***************************************************************************)
(* C9                                                                      *)
(***************************************************************************)
\* C9: the file of a group holds its previous content or the complete new
\* document, also when the write has failed.
C9_WriteAllOrNothing ==
    \A l \in Labels : files[l] \in {"previous", "complete"}

(***************************************************************************)
(* C10                                                                     *)
(***************************************************************************)
CodeIdx == {k \in 1..Len(cols) : IsCodeName(cols[k].name)}

NumberIdx == {k \in 1..Len(cols) : IsNumberName(cols[k].name)}

NameIdx == {k \in 1..Len(cols) : IsNameName(cols[k].name)}

\* C10: the district-code column is the first whose name holds DIST and COD,
\* else the first whose name holds DIST and NO, the district-name column the
\* first whose name holds DIST and NAME, letter case ignored; a role without
\* column yields null for every node, and never an exception.
C10_SchemaDegradesToNull ==
    /\ Loaded =>
          /\ dcode_col = IF CodeIdx # {} THEN cols[SetMin(CodeIdx)].name
                         ELSE IF NumberIdx # {} THEN cols[SetMin(NumberIdx)].name
                         ELSE NoCol
          /\ dname_col = IF NameIdx # {} THEN cols[SetMin(NameIdx)].name ELSE NoCol
    /\ Built =>
          /\ (CodeIdx \cup NumberIdx = {}) => \A k \in 1..Len(nodes) : nodes[k].district_id = JNull
          /\ NameIdx = {} => \A k \in 1..Len(nodes) : nodes[k].district = JNull
    /\ err = "ValueError" => (CodeIdx \cup NumberIdx # {})

C10_Witness ==
    /\ Built
    /\ Len(cols) > Len(BaseCols)
    /\ CodeIdx \cup NumberIdx \cup NameIdx = {}
    /\ Len(nodes) >= 2
    /\ \A k \in 1..Len(nodes) : nodes[k].district_id = JNull /\ nodes[k].district = JNull

====
